---- MODULE Spec2Model ----
(***************************************************************************)
(* A model of src/index.js, the Email class of email-templates: rendering  *)
(* of the subject, html and text parts of a template (checkAndRender,      *)
(* render), assembly of the message draft (renderAll) and delivery (send). *)
(*                                                                         *)
(* JavaScript strings are sequences of one-character strings, except that  *)
(* an HTML tag is a single element ("<p>", "<style>", "<img>").  A plain   *)
(* JavaScript object is a function whose DOMAIN is the set of keys that    *)
(* are present: a missing key is a key outside the DOMAIN.                 *)
(***************************************************************************)
EXTENDS Naturals, Sequences, FiniteSets, TLC

VARIABLES config, transport, fs, calls

vars == <<config, transport, fs, calls>>

(* ------------------------------ strings ------------------------------ *)

Whitespace == {" ", "\n"}

RECURSIVE TrimStart(_)
TrimStart(s) ==
    IF s # <<>> /\ Head(s) \in Whitespace THEN TrimStart(Tail(s)) ELSE s

RECURSIVE TrimEnd(_)
TrimEnd(s) ==
    IF s # <<>> /\ s[Len(s)] \in Whitespace
    THEN TrimEnd(SubSeq(s, 1, Len(s) - 1))
    ELSE s

\* String.prototype.trim
Trim(s) == TrimEnd(TrimStart(s))

\* is.emptyStringOrWhitespace on a string
IsEmptyStringOrWhitespace(s) == \A i \in 1..Len(s) : s[i] \in Whitespace

Tags == {"<p>", "</p>", "<style>", "<img>"}

RECURSIVE DropTags(_)
DropTags(s) ==
    IF s = <<>> THEN <<>>
    ELSE IF Head(s) \in Tags THEN DropTags(Tail(s))
    ELSE <<Head(s)>> \o DropTags(Tail(s))

\* htmlToText.fromString(html, { ignoreImage: true }): the markup is dropped
\* and the text that is left has no surrounding blank space
HtmlToText(html) == Trim(DropTags(html))

RECURSIVE InlineStyle(_)
InlineStyle(s) ==
    IF s = <<>> THEN <<>>
    ELSE IF Head(s) = "<style>" THEN InlineStyle(Tail(s))
    ELSE IF Head(s) = "<p>" THEN <<"<p style>">> \o InlineStyle(Tail(s))
    ELSE <<Head(s)>> \o InlineStyle(Tail(s))

\* juice.juiceResources(html, options): a style sheet is moved into the
\* elements it applies to; a text without one is returned as it is
JuiceHtml(res) ==
    IF \E i \in 1..Len(res) : res[i] = "<style>" THEN InlineStyle(res) ELSE res

(* ------------------------------ objects ------------------------------ *)

EmptyObject == [k \in {} |-> <<>>]

Has(o, k) == k \in DOMAIN o

\* o[k] is truthy: present and not the empty string
Truthy(o, k) == Has(o, k) /\ o[k] # <<>>

SetKey(o, k, v) == [x \in DOMAIN o \cup {k} |-> IF x = k THEN v ELSE o[x]]

\* delete o[k], _.omit(o, k)
Omit(o, k) == [x \in DOMAIN o \ {k} |-> o[x]]

\* Object.assign(target, source), { ...target, ...source }
ObjectAssign(target, source) ==
    [x \in DOMAIN target \cup DOMAIN source |->
        IF x \in DOMAIN source THEN source[x] ELSE target[x]]

\* _.defaults(dest, source): a key is taken from source only where dest has none
Defaults(dest, source) ==
    [x \in DOMAIN dest \cup DOMAIN source |->
        IF x \in DOMAIN dest THEN dest[x] ELSE source[x]]

\* _.defaultsDeep(dest, first, second): the sources are applied left to right
DefaultsDeep(dest, first, second) == Defaults(Defaults(dest, first), second)

(* --------------------------- configuration --------------------------- *)

Types == {"subject", "html", "text"}

SitePrefix == <<"[", "S", "i", "t", "e", "]", " ">>

\* views.options.map of the defaults
DefaultMap == [present |-> TRUE, m |-> [hbs |-> "handlebars", njk |-> "nunjucks"]]

\* the names consolidate has a render function for
EngineSource == {"pug", "handlebars", "nunjucks"}

\* the defaults the constructor merges the caller's options into
\* (NODE_ENV unset: send is off, preview is on)
DefaultConfig ==
    [ extension     |-> "pug",
      map           |-> DefaultMap,
      locals        |-> [cache |-> <<"f">>, pretty |-> <<"t">>],
      message       |-> EmptyObject,
      send          |-> FALSE,
      preview       |-> TRUE,
      customRender  |-> FALSE,
      textOnly      |-> FALSE,
      htmlToText    |-> TRUE,
      subjectPrefix |-> <<>>,
      juice         |-> TRUE ]

\* new Email(options): options.render switches customRender on, the other
\* options replace the defaults (map and locals are merged key by key)
Constructor(options) ==
    LET given == IF Has(options, "render")
                 THEN SetKey(Omit(options, "render"), "customRender", TRUE)
                 ELSE options
    IN  [k \in DOMAIN DefaultConfig |->
            IF ~Has(given, k) THEN DefaultConfig[k]
            ELSE IF k = "map" /\ given[k].present
                 THEN [present |-> TRUE,
                       m |-> ObjectAssign(DefaultConfig.map.m, given[k].m)]
            ELSE IF k = "locals" THEN ObjectAssign(DefaultConfig.locals, given[k])
            ELSE given[k]]

\* the transport the instance is constructed with, and the one
\* nodemailer.createTransport({ jsonTransport: true }) makes in call c
RealTransport == [kind |-> "real", by |-> 0]
JsonTransport(c) == [kind |-> "json", by |-> c]

(* -------------------------- template files --------------------------- *)

\* the source of each part's template file; "{n}" stands for the local `name`
FileContent(type) ==
    CASE type = "subject" -> <<"H", "i", " ", "{n}", " ">>
      [] type = "html"    -> <<"<style>", "<p>", "H", "i", " ", "{n}", "</p>">>
      [] type = "text"    -> <<"H", "i", " ", "{n}">>

RECURSIVE Substitute(_, _)
Substitute(s, locals) ==
    IF s = <<>> THEN <<>>
    ELSE IF Head(s) = "{n}"
         THEN (IF Has(locals, "name") THEN locals["name"] ELSE <<>>)
              \o Substitute(Tail(s), locals)
    ELSE <<Head(s)>> \o Substitute(Tail(s), locals)

\* what a template engine makes of the file with the locals it is given
EngineOutput(type, locals) == Substitute(FileContent(type), locals)

(* ------------------------------ render ------------------------------- *)

\* checkAndRender: the locals handed to render for a part
PartLocals(type, locals) ==
    ObjectAssign(locals, IF type = "html" THEN EmptyObject
                         ELSE [pretty |-> <<"f">>])

\* render: the file is returned as it is, with no engine
IsPassThrough(ext, map) == ext = "html" /\ ~map.present

\* render: the name of the engine for a file extension
EngineName(ext, map) ==
    IF map.present /\ Has(map.m, ext) THEN map.m[ext] ELSE ext

(* ----------------------------- renderAll ----------------------------- *)

\* renderAll: the parts are rendered at all
NeedsRender(template, message) ==
    /\ template # ""
    /\ \/ ~Truthy(message, "subject")
       \/ ~Truthy(message, "html")
       \/ ~Truthy(message, "text")

FillPartOverwrite(message, rendered, type) ==
    IF Truthy(rendered, type)
    THEN SetKey(message, type, rendered[type])
    ELSE message

\* renderAll: `if (part && !message.part) message.part = part`
FillPart(message, rendered, type) ==
    IF Truthy(rendered, type) /\ ~Truthy(message, type)
    THEN SetKey(message, type, rendered[type])
    ELSE message

\* renderAll: a rendered part fills the field the message lacks
MergeRendered(message, rendered) ==
    FillPart(FillPart(FillPart(message, rendered, "subject"),
                      rendered, "html"), rendered, "text")

PrefixTrimmedSubject(message) ==
    IF Truthy(message, "subject") /\ config.subjectPrefix # <<>>
    THEN SetKey(message, "subject",
                config.subjectPrefix \o Trim(message["subject"]))
    ELSE message

\* renderAll: the subject prefix, and then the trim
PrefixSubject(message) ==
    IF Truthy(message, "subject") /\ config.subjectPrefix # <<>>
    THEN SetKey(message, "subject", config.subjectPrefix \o message["subject"])
    ELSE message

TrimSubject(message) ==
    IF Truthy(message, "subject")
    THEN SetKey(message, "subject", Trim(message["subject"]))
    ELSE message

\* renderAll: the text is derived from the html
DeriveText(message) ==
    IF config.htmlToText /\ Truthy(message, "html") /\ ~Truthy(message, "text")
    THEN SetKey(message, "text", HtmlToText(message["html"]))
    ELSE message

\* renderAll: textOnly deletes the html
StripHtml(message) ==
    IF config.textOnly THEN Omit(message, "html") ELSE message

BlankOrMissing(message, k) ==
    ~Has(message, k) \/ IsEmptyStringOrWhitespace(message[k])

IsEmptyContentNoAttachments(message) ==
    /\ BlankOrMissing(message, "subject")
    /\ BlankOrMissing(message, "text")
    /\ BlankOrMissing(message, "html")

\* renderAll: the condition of the "No content was passed" error
IsEmptyContent(message) ==
    /\ BlankOrMissing(message, "subject")
    /\ BlankOrMissing(message, "text")
    /\ BlankOrMissing(message, "html")
    /\ Has(message, "attachments")
    /\ message["attachments"] = <<>>

\* renderAll from the merge of the rendered parts to the check of the content
Assemble(message, rendered) ==
    StripHtml(DeriveText(TrimSubject(PrefixSubject(
        MergeRendered(message, rendered)))))

(* ------------------------------- send -------------------------------- *)

\* send: the attachments are chosen whole ([] is truthy)
ChooseAttachments(message) ==
    IF Has(message, "attachments") THEN message["attachments"]
    ELSE IF Has(config.message, "attachments")
         THEN config.message["attachments"]
    ELSE <<>>

\* send: the message handed to renderAll
MergeMessage(message) ==
    SetKey(DefaultsDeep(EmptyObject, Omit(message, "attachments"),
                        Omit(config.message, "attachments")),
           "attachments", ChooseAttachments(message))

\* send: the locals handed to renderAll
MergeLocals(locals) == DefaultsDeep(EmptyObject, config.locals, locals)

KeepTransport(c) == transport

\* send: the transport sendMail is called on
SelectTransport(c) == IF ~config.send THEN JsonTransport(c) ELSE transport

(* ------------------------------ inputs ------------------------------- *)

MaxCalls == 2

Calls == 1..MaxCalls

Hello == <<" ", " ", "H", "e", "l", "l", "o", " ", " ">>

CallerHtml == <<"<p>", "Y", "o", "</p>">>

CallerText == <<"Y", "o">>

NoMap == [present |-> FALSE, m |-> EmptyObject]

HtmlMap == [present |-> TRUE, m |-> [html |-> "handlebars"]]

\* the options a caller gives the constructor: none, each option alone, and
\* the pairs of options that act on the same step
Options ==
    { EmptyObject,
      [render |-> TRUE], [juice |-> FALSE], [textOnly |-> TRUE],
      [htmlToText |-> FALSE], [subjectPrefix |-> SitePrefix],
      [send |-> TRUE], [preview |-> FALSE],
      [map |-> NoMap], [map |-> HtmlMap], [extension |-> "html"],
      [message |-> [html |-> CallerHtml]],
      [message |-> [attachments |-> <<"a.pdf">>]],
      [locals |-> [name |-> <<"D">>]],
      [extension |-> "html", map |-> NoMap],
      [extension |-> "html", map |-> HtmlMap],
      [textOnly |-> TRUE, message |-> [html |-> CallerHtml]],
      [textOnly |-> TRUE, htmlToText |-> FALSE],
      [textOnly |-> TRUE, send |-> TRUE],
      [render |-> TRUE, juice |-> FALSE],
      [send |-> TRUE, preview |-> FALSE] }

\* the part files of the template "welcome" that exist
FileSystems == {{}, {"html"}, Types}

\* the caller's message: no field, each field alone (empty, blank or with
\* content), and several fields together
Messages ==
    { EmptyObject,
      [subject |-> <<>>], [subject |-> <<" ", " ">>], [subject |-> Hello],
      [html |-> <<>>], [html |-> <<" ">>], [html |-> CallerHtml],
      [text |-> <<>>], [text |-> CallerText],
      [attachments |-> <<>>], [attachments |-> <<"a.pdf">>],
      [html |-> CallerHtml, text |-> CallerText],
      [subject |-> Hello, html |-> CallerHtml, text |-> CallerText],
      [subject |-> <<" ", " ">>, html |-> <<" ">>, text |-> <<>>,
       attachments |-> <<>>],
      [subject |-> <<" ", " ">>, html |-> <<" ">>, text |-> <<>>,
       attachments |-> <<"a.pdf">>] }

Templates == {"", "welcome"}

CallLocals == {EmptyObject, [name |-> <<"A">>], [pretty |-> <<"f">>]}

\* the arguments of a call: per-call locals come with an empty message only
Requests ==
    [template : Templates, message : Messages, locals : {EmptyObject}]
        \cup [template : Templates, message : {EmptyObject}, locals : CallLocals]

(* ------------------------------- state ------------------------------- *)

NoError == <<>>

EmptyContentError == <<"EmptyContent">>

NoPart == [st |-> "none", out |-> <<>>, def |-> FALSE]

IdleCall ==
    [ pc           |-> "idle",
      kind         |-> "none",
      request      |-> [template |-> "", message |-> EmptyObject,
                        locals |-> EmptyObject],
      template     |-> "",
      locals       |-> EmptyObject,
      predefined   |-> EmptyObject,
      message      |-> EmptyObject,
      parts        |-> [t \in Types |-> NoPart],
      firstRej     |-> NoError,
      draft        |-> EmptyObject,
      err          |-> NoError,
      existsCalled |-> {},
      renderLocals |-> EmptyObject,
      engineLookup |-> {},
      engineCalled |-> {},
      juiced       |-> EmptyObject,
      sentVia      |-> [kind |-> "none", by |-> 0],
      sent         |-> EmptyObject,
      original     |-> EmptyObject ]

Pending == {"exists", "render", "juice", "custom"}

Init ==
    /\ \E options \in Options : config = Constructor(options)
    /\ transport = RealTransport
    /\ fs \in FileSystems
    /\ calls = [c \in Calls |-> IdleCall]

(* --------------------------- checkAndRender -------------------------- *)

ChecksExistenceAlways == TRUE

\* checkAndRender: templateExists is awaited before render
ChecksExistence == ~config.customRender

\* checkAndRender up to its first await, for one part: either templateExists
\* is pending, or render was invoked with the part's locals
StartPart(call, type) ==
    IF ChecksExistence
    THEN [call EXCEPT !.parts[type].st = "exists",
                      !.existsCalled = @ \cup {type}]
    ELSE [call EXCEPT !.parts[type].st = "custom",
                      !.renderLocals =
                          SetKey(@, type, PartLocals(type, call.locals))]

Resolve(call, type, out) ==
    [call EXCEPT !.parts[type] = [st |-> "resolved", out |-> out, def |-> TRUE]]

Reject(call, type, name) ==
    [call EXCEPT !.parts[type].st = "rejected",
                 !.firstRej = IF @ = NoError THEN <<name, type>> ELSE @]

\* templateExists settles: a missing file leaves the part undefined, an
\* existing one is handed to render
TemplateExists(c, type) ==
    /\ calls[c].parts[type].st = "exists"
    /\ calls' = [calls EXCEPT ![c] =
         IF type \in fs
         THEN [@ EXCEPT !.parts[type].st = "render",
                        !.renderLocals =
                            SetKey(@, type, PartLocals(type, calls[c].locals))]
         ELSE [@ EXCEPT !.parts[type].st = "resolved"]]
    /\ UNCHANGED <<config, transport, fs>>

\* render after the file is resolved: the raw file, or the engine's output,
\* which goes to juice when config.juice is on
RenderView(c, type) ==
    /\ calls[c].parts[type].st = "render"
    /\ \E ok \in BOOLEAN :
         LET call == calls[c]
             ext == config.extension
             name == EngineName(ext, config.map)
             looked == [call EXCEPT !.engineLookup = @ \cup {type}]
             res == EngineOutput(type, call.renderLocals[type])
         IN  calls' = [calls EXCEPT ![c] =
               IF IsPassThrough(ext, config.map)
               THEN Resolve(call, type, FileContent(type))
               ELSE IF name \notin EngineSource
               THEN Reject(looked, type, "EngineNotFound")
               ELSE IF ~ok
               THEN Reject([looked EXCEPT !.engineCalled = @ \cup {type}],
                           type, "EngineError")
               ELSE IF ~config.juice
               THEN Resolve([looked EXCEPT !.engineCalled = @ \cup {type}],
                            type, res)
               ELSE [looked EXCEPT !.engineCalled = @ \cup {type},
                                   !.parts[type].st = "juice",
                                   !.juiced = SetKey(@, type, res)]]
    /\ UNCHANGED <<config, transport, fs>>

\* juiceResources settles
JuiceDone(c, type) ==
    /\ calls[c].parts[type].st = "juice"
    /\ calls' = [calls EXCEPT ![c] =
                   Resolve(@, type, JuiceHtml(calls[c].juiced[type]))]
    /\ UNCHANGED <<config, transport, fs>>

\* the caller's render function settles
CustomRenderDone(c, type) ==
    /\ calls[c].parts[type].st = "custom"
    /\ \E ok \in BOOLEAN :
         calls' = [calls EXCEPT ![c] =
             IF ok
             THEN Resolve(@, type,
                          EngineOutput(type, calls[c].renderLocals[type]))
             ELSE Reject(@, type, "RenderError")]
    /\ UNCHANGED <<config, transport, fs>>

(* ----------------------------- renderAll ----------------------------- *)

\* renderAll ends: it returns its message or throws, to the caller or to send
Finish(call, message, err) ==
    [call EXCEPT !.pc = IF call.kind = "send" THEN "rendered" ELSE "done",
                 !.draft = message,
                 !.err = err]

\* renderAll from the merge of the rendered parts to its end
Complete(call, rendered) ==
    LET message == Assemble(call.draft, rendered)
    IN  Finish(call, message,
               IF IsEmptyContent(message) THEN EmptyContentError ELSE NoError)

\* renderAll up to its first await
Begin(call) ==
    IF NeedsRender(call.template, call.predefined)
    THEN [StartPart(StartPart(StartPart(call, "subject"), "html"), "text")
             EXCEPT !.pc = "parts"]
    ELSE Complete(call, EmptyObject)

\* the parts Promise.all resolved with a value
Rendered(call) ==
    [t \in {x \in Types : call.parts[x].def} |-> call.parts[t].out]

\* Promise.all settles: with the first rejection, or when every part resolved
Join(c) ==
    /\ calls[c].pc = "parts"
    /\ \/ /\ calls[c].firstRej # NoError
          /\ calls' = [calls EXCEPT ![c] =
                          Finish(@, calls[c].draft, calls[c].firstRej)]
       \/ /\ calls[c].firstRej = NoError
          /\ \A t \in Types : calls[c].parts[t].st = "resolved"
          /\ calls' = [calls EXCEPT ![c] = Complete(@, Rendered(calls[c]))]
    /\ UNCHANGED <<config, transport, fs>>

\* a call takes the first slot that is free
FreeSlot(c) ==
    /\ calls[c].pc = "idle"
    /\ \A d \in Calls : d < c => calls[d].pc # "idle"

NewCall(kind, request, locals, message) ==
    [IdleCall EXCEPT !.kind = kind,
                     !.request = request,
                     !.template = request.template,
                     !.locals = locals,
                     !.predefined = message,
                     !.draft = message,
                     !.message = message]

\* renderAll(template, locals, predefinedMessage) called by the user
RenderAll(c, request) ==
    /\ \A d \in Calls : calls[d].pc = "idle"
    /\ FreeSlot(c)
    /\ calls' = [calls EXCEPT ![c] =
         Begin(NewCall("renderAll", request, request.locals, request.message))]
    /\ UNCHANGED <<config, transport, fs>>

(* ------------------------------- send -------------------------------- *)

\* send from the replacement of the transport to the call of sendMail
Deliver(call, c) ==
    [call EXCEPT !.pc = "sendMail",
                 !.sentVia = SelectTransport(c),
                 !.sent = call.message]

\* send(options) up to its first await: the message and the locals are merged
\* with the defaults and renderAll is called
SendCall(c, request) ==
    /\ FreeSlot(c)
    /\ calls' = [calls EXCEPT ![c] =
         Begin(NewCall("send", request, MergeLocals(request.locals),
                       MergeMessage(request.message)))]
    /\ UNCHANGED <<config, transport, fs>>

\* send(options) with no other call in flight
Send(c, request) ==
    /\ \A d \in Calls : calls[d].pc = "idle"
    /\ SendCall(c, request)

\* send after renderAll: its error is thrown on, or its draft is assigned to
\* the message, which is previewed or delivered
SendResume(c) ==
    /\ calls[c].pc = "rendered"
    /\ LET call == calls[c]
           assigned == [call EXCEPT !.message = ObjectAssign(@, call.draft)]
       IN  IF call.err # NoError
           THEN /\ calls' = [calls EXCEPT ![c].pc = "done"]
                /\ UNCHANGED transport
           ELSE IF config.preview
           THEN /\ calls' = [calls EXCEPT ![c] =
                                [assigned EXCEPT !.pc = "preview"]]
                /\ UNCHANGED transport
           ELSE /\ calls' = [calls EXCEPT ![c] = Deliver(assigned, c)]
                /\ transport' = SelectTransport(c)
    /\ UNCHANGED <<config, fs>>

\* previewEmail settles
PreviewDone(c) ==
    /\ calls[c].pc = "preview"
    /\ calls' = [calls EXCEPT ![c] = Deliver(@, c)]
    /\ transport' = SelectTransport(c)
    /\ UNCHANGED <<config, fs>>

\* sendMail settles: the message is attached to the result
SendMailDone(c) ==
    /\ calls[c].pc = "sendMail"
    /\ calls' = [calls EXCEPT ![c].pc = "done",
                              ![c].original = calls[c].message]
    /\ UNCHANGED <<config, transport, fs>>

\* the caller has the result and every part has settled
Return(c) ==
    /\ calls[c].pc = "done"
    /\ \A t \in Types : calls[c].parts[t].st \notin Pending
    /\ calls' = [calls EXCEPT ![c] = IdleCall]
    /\ UNCHANGED <<config, transport, fs>>

Next ==
    \E c \in Calls :
        \/ \E request \in Requests : RenderAll(c, request)
        \/ \E request \in Requests : Send(c, request)
        \/ \E type \in Types : TemplateExists(c, type)
        \/ \E type \in Types : RenderView(c, type)
        \/ \E type \in Types : JuiceDone(c, type)
        \/ \E type \in Types : CustomRenderDone(c, type)
        \/ Join(c)
        \/ SendResume(c)
        \/ PreviewDone(c)
        \/ SendMailDone(c)
        \/ Return(c)

Spec == Init /\ [][Next]_vars

(* ---------------------- overlapping dry-run sends -------------------- *)

\* instances with send off (the default) and the default render
DryOptions == {EmptyObject, [preview |-> FALSE]}

DryRequests ==
    { [template |-> "welcome", message |-> EmptyObject, locals |-> EmptyObject],
      [template |-> "", message |-> [text |-> CallerText],
       locals |-> EmptyObject] }

InitDryRun ==
    /\ \E options \in DryOptions : config = Constructor(options)
    /\ transport = RealTransport
    /\ fs = {"html"}
    /\ calls = [c \in Calls |-> IdleCall]

\* send called while other calls are in flight
NextDryRun ==
    \E c \in Calls :
        \/ \E request \in DryRequests : SendCall(c, request)
        \/ \E type \in Types : TemplateExists(c, type)
        \/ \E type \in Types : RenderView(c, type)
        \/ \E type \in Types : JuiceDone(c, type)
        \/ Join(c)
        \/ SendResume(c)
        \/ PreviewDone(c)
        \/ SendMailDone(c)
        \/ Return(c)

SpecDryRun == InitDryRun /\ [][NextDryRun]_vars

(* ------------------------------ claims ------------------------------- *)

\* renderAll of call c has ended, and has returned its draft
Ended(c) == calls[c].pc \notin {"idle", "parts"}

Returned(c) == Ended(c) /\ calls[c].err = NoError

NonBlank(o, k) == Has(o, k) /\ ~IsEmptyStringOrWhitespace(o[k])

\* the subject renderAll makes of a subject s
FinalSubject(s) == Trim(config.subjectPrefix \o s)

\* the field of the draft is the one made of value v
KeepsValue(draft, type, v) ==
    CASE type = "subject" -> Has(draft, type) /\ draft[type] = FinalSubject(v)
      [] type = "html"    -> IF config.textOnly THEN ~Has(draft, type)
                             ELSE Has(draft, type) /\ draft[type] = v
      [] type = "text"    -> Has(draft, type) /\ draft[type] = v

\* the html the text is derived from
HtmlSource(pre, ren) ==
    IF Truthy(pre, "html") THEN pre["html"]
    ELSE IF Truthy(ren, "html") THEN ren["html"]
    ELSE <<>>

\* the text of the draft when neither the caller nor the template gave one
TextDerived(draft, pre, ren) ==
    IF config.htmlToText /\ HtmlSource(pre, ren) # <<>>
    THEN Has(draft, "text") /\ draft["text"] = HtmlToText(HtmlSource(pre, ren))
    ELSE /\ Has(draft, "text") <=> Has(pre, "text")
         /\ Has(draft, "text") => draft["text"] = pre["text"]

\* C1 as stated: in the draft renderAll returns, a subject, html or text that
\* is present in predefinedMessage is never replaced by the rendered part, a
\* rendered part fills a field only when the caller left it out, and the text
\* is derived from the html only when neither gave a text.
C1_PresentFieldKept ==
    \A c \in Calls : Returned(c) =>
        LET pre == calls[c].predefined
            ren == Rendered(calls[c])
            draft == calls[c].draft
        IN  /\ \A type \in Types :
                  Has(pre, type) => KeepsValue(draft, type, pre[type])
            /\ \A type \in Types :
                  ~Has(pre, type) /\ Has(ren, type) =>
                      KeepsValue(draft, type, ren[type])
            /\ ~Has(pre, "text") /\ ~Has(ren, "text") =>
                  TextDerived(draft, pre, ren)

\* C1 as amended: a non-empty subject, html or text of predefinedMessage is
\* never replaced by the rendered part; a rendered part fills the field when
\* the caller left it out or gave the empty string; the text is derived from
\* the html only when htmlToText is on, the html is non-empty and neither the
\* caller nor the text template gave a non-empty text.
C1_NonEmptyFieldKept ==
    \A c \in Calls : Returned(c) =>
        LET pre == calls[c].predefined
            ren == Rendered(calls[c])
            draft == calls[c].draft
        IN  /\ \A type \in Types :
                  Truthy(pre, type) => KeepsValue(draft, type, pre[type])
            /\ \A type \in Types :
                  ~Truthy(pre, type) /\ Truthy(ren, type) =>
                      KeepsValue(draft, type, ren[type])
            /\ ~Truthy(pre, "text") /\ ~Truthy(ren, "text") =>
                  TextDerived(draft, pre, ren)

\* the caller gave an html, the html template was rendered too, and the draft
\* has the caller's html
C1_Witness ==
    \E c \in Calls :
        /\ Returned(c)
        /\ Truthy(calls[c].predefined, "html")
        /\ Truthy(Rendered(calls[c]), "html")
        /\ Has(calls[c].draft, "html")
        /\ calls[c].draft["html"] = calls[c].predefined["html"]
        /\ calls[c].draft["html"] # Rendered(calls[c])["html"]

AllBlank(message) ==
    \A type \in Types : ~NonBlank(message, type)

\* C2: renderAll throws the empty-content error when subject, text and html
\* are each missing or blank and attachments is an empty list, and does not
\* throw it when attachments is a non-empty list.
C2_EmptyContentError ==
    \A c \in Calls : Ended(c) /\ calls[c].firstRej = NoError =>
        LET message == calls[c].draft
        IN  /\ AllBlank(message) /\ Has(message, "attachments")
                  /\ message["attachments"] = <<>>
               => calls[c].err = EmptyContentError
            /\ Has(message, "attachments") /\ message["attachments"] # <<>>
               => calls[c].err = NoError

\* a message with a blank html, no other content and one attachment is returned
C2_Witness ==
    \E c \in Calls :
        /\ Returned(c)
        /\ AllBlank(calls[c].draft)
        /\ Has(calls[c].draft, "html")
        /\ Has(calls[c].draft, "attachments")
        /\ calls[c].draft["attachments"] # <<>>

\* C3: with textOnly on, the message handed to sendMail, which is attached to
\* the result as originalMessage, has no html field.
C3_TextOnlyNoHtml ==
    config.textOnly =>
        \A c \in Calls :
            /\ calls[c].pc \in {"sendMail", "done"} => ~Has(calls[c].sent, "html")
            /\ calls[c].pc = "done" => ~Has(calls[c].original, "html")

\* C4: with send off, sendMail of the transport the instance was constructed
\* with is never called, every delivery goes to a JSON transport, and once
\* config.transport is a JSON transport it stays one.
C4_DryRun ==
    /\ [](~config.send =>
            /\ \A c \in Calls : calls[c].sentVia.kind \in {"none", "json"}
            /\ (\E c \in Calls : calls[c].sentVia.kind # "none")
                   => transport.kind = "json")
    /\ [][~config.send /\ transport.kind = "json"
              => transport'.kind = "json"]_vars

\* two sends overlap and each has called sendMail, on its own JSON transport
C4_Witness ==
    /\ ~config.send
    /\ \E c, d \in Calls :
        /\ c # d
        /\ calls[c].pc = "sendMail"
        /\ calls[d].pc = "sendMail"
        /\ calls[c].sentVia = JsonTransport(c)
        /\ calls[d].sentVia = JsonTransport(d)

\* C5: in send, for every key of both request.locals and config.views.locals
\* the value handed to renderAll and to render is the per-call one (pretty is
\* forced off for the subject and the text).
C5_CallLocalsWin ==
    \A c \in Calls : calls[c].kind = "send" =>
        \A k \in DOMAIN calls[c].request.locals \cap DOMAIN config.locals :
            /\ calls[c].locals[k] = calls[c].request.locals[k]
            /\ \A type \in DOMAIN calls[c].renderLocals :
                  \/ (k = "pretty" /\ type # "html")
                  \/ calls[c].renderLocals[type][k] = calls[c].request.locals[k]

\* C6: with the default render, juice is handed the engine output of the html
\* part only, never that of the subject or of the text.
C6_JuiceOnlyHtml ==
    \A c \in Calls : DOMAIN calls[c].juiced \subseteq {"html"}

\* C7: with the default render, a file extension html and no entry for html in
\* the map, render looks up no engine and never fails with the
\* engine-not-found error.
C7_HtmlPassThrough ==
    /\ ~config.customRender
    /\ config.extension = "html"
    /\ ~(config.map.present /\ Has(config.map.m, "html"))
    => \A c \in Calls :
          /\ calls[c].engineLookup = {}
          /\ \A type \in Types : calls[c].parts[type].st # "rejected"

\* the subject renderAll starts from: the caller's, or else the rendered one
SubjectSource(c) ==
    IF Truthy(calls[c].predefined, "subject")
    THEN calls[c].predefined["subject"]
    ELSE IF Truthy(Rendered(calls[c]), "subject")
         THEN Rendered(calls[c])["subject"]
    ELSE <<>>

NoOuterWhitespace(s) ==
    s # <<>> => s[1] \notin Whitespace /\ s[Len(s)] \notin Whitespace

\* s is full without the whitespace at its two ends
IsTrimOf(s, full) ==
    /\ NoOuterWhitespace(s)
    /\ \E i \in 0..Len(full) :
          LET j == i + Len(s)
          IN  /\ j <= Len(full)
              /\ SubSeq(full, i + 1, j) = s
              /\ \A k \in (1..i) \cup ((j + 1)..Len(full)) :
                    full[k] \in Whitespace

SiteHello == <<"[", "S", "i", "t", "e", "]", " ", "H", "e", "l", "l", "o">>

SiteSpacedHello ==
    <<"[", "S", "i", "t", "e", "]", " ", " ", " ", "H", "e", "l", "l", "o">>

\* C8 as stated: with subjectPrefix "[Site] " and the subject "  Hello  " the
\* final subject is "[Site] Hello".
C8_SiteHello ==
    \A c \in Calls :
        /\ Returned(c)
        /\ config.subjectPrefix = SitePrefix
        /\ SubjectSource(c) = Hello
        => calls[c].draft["subject"] = SiteHello

\* C8 as amended: with subjectPrefix "[Site] " and the subject "  Hello  " the
\* final subject is "[Site]   Hello" (the subject's own leading spaces stay
\* behind the prefix); a non-empty subject gets the configured prefix in
\* front, and the final subject has no leading or trailing whitespace.
C8_PrefixThenTrim ==
    \A c \in Calls : Returned(c) /\ SubjectSource(c) # <<>> =>
        LET subject == calls[c].draft["subject"]
            prefix == config.subjectPrefix
        IN  /\ IsTrimOf(subject, prefix \o SubjectSource(c))
            /\ prefix = SitePrefix /\ SubjectSource(c) = Hello
               => subject = SiteSpacedHello

\* the subject "  Hello  " went through renderAll with the prefix "[Site] "
C8_Witness ==
    \E c \in Calls :
        /\ Returned(c)
        /\ config.subjectPrefix = SitePrefix
        /\ calls[c].predefined = [subject |-> Hello]
        /\ calls[c].draft["subject"] = SiteSpacedHello

HasContent(message) ==
    \/ \E type \in Types : NonBlank(message, type)
    \/ Has(message, "attachments") /\ message["attachments"] # <<>>

\* C9: every draft renderAll returns has a non-blank subject, a non-blank
\* text, a non-blank html or a non-empty attachments list.
C9_DraftHasContent ==
    \A c \in Calls : Returned(c) => HasContent(calls[c].draft)

Started(c, type) == calls[c].parts[type].st # "none"

\* C10: without a custom render a part whose template is missing is left out
\* and is never the part that fails, and the parts that exist are rendered;
\* with a custom render templateExists is never called, render is called for
\* all three parts, and a rejection of one of them is the error of renderAll
\* and of send, with nothing delivered.
C10_OmissionOrFailure ==
    \A c \in Calls :
        LET call == calls[c]
        IN  /\ ~config.customRender =>
                /\ \A type \in Types \ fs :
                      /\ call.parts[type].st \in {"none", "exists", "resolved"}
                      /\ ~call.parts[type].def
                      /\ ~Has(call.renderLocals, type)
                /\ \A type \in fs :
                      call.parts[type].st \notin {"none", "exists"}
                          => Has(call.renderLocals, type)
                /\ call.firstRej # NoError => call.firstRej[2] \in fs
            /\ config.customRender =>
                /\ call.existsCalled = {}
                /\ (\E type \in Types : Started(c, type))
                      => DOMAIN call.renderLocals = Types
                /\ Ended(c) /\ call.firstRej # NoError =>
                      /\ call.err = call.firstRej
                      /\ call.pc \in {"rendered", "done"}
                      /\ call.sentVia.kind = "none"

\* with a custom render, send has failed with the rejection of one part while
\* another part was rendered
C10_Witness ==
    /\ config.customRender
    /\ \E c \in Calls :
        /\ calls[c].kind = "send"
        /\ calls[c].pc = "done"
        /\ calls[c].err # NoError
        /\ calls[c].err = calls[c].firstRej
        /\ \E type \in Types : calls[c].parts[type].st = "resolved"

====
